---- MODULE Spec2Model ----
(***************************************************************************)
(* UserService of artisan-core (src/app/services/user.py) and the routes   *)
(* that call it (src/routes/users.py), as a state machine over the users   *)
(* table.  Every action is one HTTP request: the route handler, the        *)
(* service method it calls, and the commit.  Requests are handled one at   *)
(* a time: respond hands the answer to the client and the next request     *)
(* starts from an idle server.                                             *)
(***************************************************************************)
EXTENDS Integers, Sequences, FiniteSets, TLC

(***************************************************************************)
(* Bounds of the model.                                                    *)
(***************************************************************************)
\* ids the table's autoincrement key hands out: 1..MaxId
MaxId == 2
\* the clock readings a row can be stamped with: 0..MaxTime (in ticks)
MaxTime == 1
\* longest id list given to bulk_delete
MaxBulk == 2
\* page and items_per_page arguments of all(): 1..MaxPage, 1..MaxPerPage
MaxPage == 2
MaxPerPage == 2

\* strftime("%Y-%m-%d %H:%M:%S") has a resolution of one second; a datetime
\* has sub-second digits.  One second is TicksPerSecond ticks of the model.
TicksPerSecond == 2

\* the ids a request can name: those the table hands out (1..MaxId) and one
\* it never does
RequestIds == 1..(MaxId + 1)
Times == 0..MaxTime
Usernames == {"ann", "bob"}
Emails == {"a@x.io", "b@x.io"}
Passwords == {"pw1"}

\* Python's None, and a value that is present (Optional[...]).
None == <<>>
Some(v) == <<v>>

VARIABLES
    users,     \* the rows of the users table, as committed
    nextId,    \* the next value of the table's autoincrement key
    before,    \* the rows as they were when the last request started
    call,      \* the last request: the service method and its arguments
    result,    \* what the service method did: returned a value or raised
    http,      \* the status code the route answered with
    session,   \* how the request's database session was left
    env_calls,    \* handlers.data_validation: what each call of env() reported
    info_calls,   \* the messages logger.info was called with, in order
    main_returns  \* what each call of main() returned

vars == <<users, nextId, before, call, result, http, session, env_calls, info_calls, main_returns>>

\* the state of the UserService routes, and of the data_validation handler
serviceVars == <<users, nextId, before, call, result, http, session>>
handlerVars == <<env_calls, info_calls, main_returns>>

(***************************************************************************)
(* The users table (app.models.user.User).                                 *)
(***************************************************************************)
UserRow(id, username, email, password, created_at, updated_at) ==
    [id |-> id, username |-> username, email |-> email, password |-> password,
     created_at |-> created_at, updated_at |-> updated_at]

\* the key the table gives to an inserted row
NewId == nextId

(***************************************************************************)
(* Outcomes of a service call.                                             *)
(***************************************************************************)
Return(v) == [kind |-> "return", value |-> v]
Raise(e) == [kind |-> "raise", exc |-> e]
Raised(e) == result.kind = "raise" /\ result.exc = e
Returned == result.kind = "return"

\* datetime.strftime("%Y-%m-%d %H:%M:%S"): the sub-second part is dropped
strftime(t) == t \div TicksPerSecond

\* UserResponse / UserCreateResponse / UserUpdateResponse of a row
_user_to_response_Raw(user) ==
    [id |-> user.id, username |-> user.username, email |-> user.email,
     created_at |-> user.created_at, updated_at |-> user.updated_at]
_user_to_response(user) ==
    [id |-> user.id, username |-> user.username, email |-> user.email,
     created_at |-> strftime(user.created_at),
     updated_at |-> strftime(user.updated_at)]

\* self.db.query(User).filter(User.id == id): the rows with that id
QueryById(rows, id) == {u \in rows : u.id = id}

\* self.db.query(User).filter(User.email == email): the rows with that email
QueryByEmail_Username(rows, email) == {u \in rows : u.username = email}
QueryByEmail(rows, email) == {u \in rows : u.email = email}

\* "hashed_" + password
HashPassword_Plain(password) == password
HashPassword(password) == "hashed_" \o password

\* self.db.add(new_user); self.db.commit()
DbAdd(rows, new_user) == rows \cup {new_user}

\* setattr on the loaded row, then self.db.commit(): the row is rewritten
DbUpdate(rows, old, new) == (rows \ {old}) \cup {new}

\* self.db.delete(user); self.db.commit()
DbDelete_Nothing(rows, user) == rows
DbDelete(rows, user) == rows \ {user}

(***************************************************************************)
(* Requests.                                                               *)
(***************************************************************************)
\* UserCreateRequest: username, email and password are required.  The
\* requests of the model leave created_at and updated_at unset.
UserCreateRequests == [username : Usernames, email : Emails, password : Passwords]

\* UserUpdateRequest.model_dump(exclude_unset=True): a dict of the fields
\* that were set.  password is Optional[str] and may be set to None; the
\* requests of the model set username and email to a value only (what a
\* NULL in those columns does is decided by the table, app.models.user),
\* and leave created_at and updated_at unset.
UpdateFieldValues(f) ==
    CASE f = "username" -> {Some(v) : v \in Usernames}
      [] f = "email" -> {Some(v) : v \in Emails}
      [] f = "password" -> {Some(v) : v \in Passwords} \cup {None}

UserUpdateRequests ==
    UNION {{d \in [S -> UNION {UpdateFieldValues(f) : f \in S}] :
                \A f \in S : d[f] \in UpdateFieldValues(f)} :
           S \in SUBSET {"username", "email", "password"}}

\* no request is being handled
Idle == call.op = "none"

\* nothing was logged and main() was not called yet
InitHandler ==
    /\ env_calls = <<>>
    /\ info_calls = <<>>
    /\ main_returns = <<>>

Init ==
    /\ users = {}
    /\ nextId = 1
    /\ before = {}
    /\ call = [op |-> "none"]
    /\ result = [kind |-> "none"]
    /\ http = 0
    /\ session = "none"
    /\ InitHandler

\* the route's answer goes out; the per-request UserService is dropped
respond ==
    /\ ~Idle
    /\ UNCHANGED handlerVars
    /\ before' = {}
    /\ call' = [op |-> "none"]
    /\ result' = [kind |-> "none"]
    /\ http' = 0
    /\ session' = "none"
    /\ UNCHANGED <<users, nextId>>

(***************************************************************************)
(* POST /users: create_user -> UserService.save                            *)
(***************************************************************************)
save(user_request, now) ==
    LET existing_user == QueryByEmail(users, user_request.email)
        new_user == UserRow(NewId, user_request.username, user_request.email,
                            HashPassword(user_request.password), now, now)
    IN  /\ Idle
        /\ UNCHANGED handlerVars
        /\ before' = users
        /\ call' = [op |-> "save", user_request |-> user_request]
        /\ IF existing_user # {}
           THEN /\ result' = Raise("DuplicateUserError")
                /\ http' = 409
                /\ session' = "open"
                /\ UNCHANGED <<users, nextId>>
           ELSE /\ nextId <= MaxId
                /\ users' = DbAdd(users, new_user)
                /\ nextId' = nextId + 1
                /\ result' = Return(_user_to_response(new_user))
                /\ http' = 201
                /\ session' = "committed"

\* UserService.get_by_id: .first() of the rows with that id (id is the
\* primary key, so there is at most one)
get_by_id(id) == CHOOSE user \in QueryById(users, id) : TRUE

\* for key, value in update_data.items(): setattr(user, key, value)
setattr(user, update_data) ==
    [f \in DOMAIN user |-> IF f \in DOMAIN update_data THEN update_data[f] ELSE user[f]]

(***************************************************************************)
(* PUT /users/{id}: update_user -> UserService.update                      *)
(***************************************************************************)
update(id, user_request) ==
    LET set_fields == DOMAIN user_request
        update_data == [f \in set_fields |->
                           IF f = "password" THEN HashPassword(user_request[f][1])
                                             ELSE user_request[f][1]]
        user == setattr(get_by_id(id), update_data)
    IN  /\ Idle
        /\ UNCHANGED handlerVars
        /\ before' = users
        /\ call' = [op |-> "update", id |-> id, user_request |-> user_request]
        /\ UNCHANGED nextId
        /\ IF QueryById(users, id) = {}
           THEN /\ result' = Raise("UserNotFoundError")
                /\ http' = 404
                /\ session' = "open"
                /\ UNCHANGED users
           ELSE IF "password" \in set_fields /\ user_request["password"] = None
           THEN \* "hashed_" + None
                /\ result' = Raise("TypeError")
                /\ http' = 500
                /\ session' = "open"
                /\ UNCHANGED users
           ELSE /\ users' = DbUpdate(users, get_by_id(id), user)
                /\ result' = Return(_user_to_response(user))
                /\ http' = 200
                /\ session' = "committed"

(***************************************************************************)
(* DELETE /users/{id}: delete_user -> UserService.delete                   *)
(***************************************************************************)
\* what the database raises when self.db.delete or self.db.commit fails
DbExceptions == {"OperationalError", "IntegrityError"}

\* How a unit of work of n deletes can go: without a fault (None), or the
\* database raises exc when `done` of the deletes went through: for done < n
\* the next self.db.delete raises, for done = n self.db.commit raises.
Faults(n) == {None} \cup {Some([done |-> k, exc |-> e]) : k \in 0..n, e \in DbExceptions}

\* self.db.rollback(): the open transaction's deletes are dropped and the
\* table is left as it was committed
rollback_Partial(committed, pending) == pending
rollback(committed, pending) == committed

delete(id, fault) ==
    /\ Idle
    /\ UNCHANGED handlerVars
    /\ before' = users
    /\ call' = [op |-> "delete", id |-> id, fault |-> fault]
    /\ UNCHANGED nextId
    /\ IF QueryById(users, id) = {}
       THEN \* get_by_id raises before the try block: nothing to fail
            /\ fault = None
            /\ result' = Raise("UserNotFoundError")
            /\ http' = 404
            /\ session' = "open"
            /\ UNCHANGED users
       ELSE LET user == get_by_id(id)
                response == _user_to_response(user)
            IN  IF fault = None
                THEN /\ users' = DbDelete(users, user)
                     /\ result' = Return(response)
                     /\ http' = 200
                     /\ session' = "committed"
                ELSE \* except Exception as e: self.db.rollback(); raise e
                     LET pending == IF fault[1].done = 1 THEN DbDelete(users, user)
                                                          ELSE users
                     IN  /\ users' = rollback(users, pending)
                         /\ result' = Raise(fault[1].exc)
                         /\ http' = 500
                         /\ session' = "rolled_back"

(***************************************************************************)
(* DELETE /users/{ids}/bulk: batch_delete_users -> UserService.bulk_delete *)
(***************************************************************************)
Range(s) == {s[i] : i \in DOMAIN s}

\* the lists a query without ORDER BY can return for a set of rows
QueryAll(rows) ==
    {s \in [1..Cardinality(rows) -> rows] : \A i, j \in DOMAIN s : s[i] = s[j] => i = j}

\* self.db.query(User).filter(User.id.in_(user_ids))
QueryIdIn_First(rows, user_ids) == {u \in rows : user_ids # <<>> /\ u.id = user_ids[1]}
QueryIdIn(rows, user_ids) == {u \in rows : u.id \in Range(user_ids)}

\* for user in users_to_delete: self.db.delete(user)
RECURSIVE DeleteEach(_, _)
DeleteEach(rows, users_to_delete) ==
    IF users_to_delete = <<>> THEN rows
    ELSE DeleteEach(DbDelete(rows, Head(users_to_delete)), Tail(users_to_delete))

bulk_delete(user_ids, fault) ==
    /\ Idle
    /\ UNCHANGED handlerVars
    /\ before' = users
    /\ call' = [op |-> "bulk_delete", user_ids |-> user_ids, fault |-> fault]
    /\ UNCHANGED nextId
    /\ \E users_to_delete \in QueryAll(QueryIdIn(users, user_ids)) :
          IF users_to_delete = <<>>
          THEN \* raised inside the try block: rolled back and raised again
               /\ fault = None
               /\ users' = rollback(users, users)
               /\ result' = Raise("UserNotFoundError")
               /\ http' = 404
               /\ session' = "rolled_back"
          ELSE LET deleted_user_ids == [i \in DOMAIN users_to_delete |-> users_to_delete[i].id]
               IN  IF fault = None
                   THEN /\ users' = DeleteEach(users, users_to_delete)
                        /\ result' = Return(deleted_user_ids)
                        /\ http' = 200
                        /\ session' = "committed"
                   ELSE LET pending == DeleteEach(users,
                                           SubSeq(users_to_delete, 1, fault[1].done))
                        IN  /\ fault[1].done <= Len(users_to_delete)
                            /\ users' = rollback(users, pending)
                            /\ result' = Raise(fault[1].exc)
                            /\ http' = 500
                            /\ session' = "rolled_back"

(***************************************************************************)
(* GET /users/{id}: get_user -> UserService.find                           *)
(***************************************************************************)
\* UserService.find on a table holding rows: get_by_id, then the response
FindOutcome(rows, id) ==
    IF QueryById(rows, id) = {}
    THEN Raise("UserNotFoundError")
    ELSE Return(_user_to_response(CHOOSE user \in QueryById(rows, id) : TRUE))

find(id) ==
    /\ Idle
    /\ UNCHANGED handlerVars
    /\ before' = users
    /\ call' = [op |-> "find", id |-> id]
    /\ UNCHANGED <<users, nextId>>
    /\ result' = FindOutcome(users, id)
    /\ http' = IF QueryById(users, id) = {} THEN 404 ELSE 200
    /\ session' = "open"

\* the id lists of the model: every list of at most MaxBulk ids
IdLists == UNION {[1..n -> RequestIds] : n \in 0..MaxBulk}

Next ==
    \/ \E r \in UserCreateRequests, now \in Times : save(r, now)
    \/ \E id \in RequestIds, r \in UserUpdateRequests : update(id, r)
    \/ \E id \in RequestIds, fault \in Faults(1) : delete(id, fault)
    \/ \E ids \in IdLists, fault \in Faults(MaxBulk) : bulk_delete(ids, fault)
    \/ \E id \in RequestIds : find(id)
    \/ respond

Spec == Init /\ [][Next]_vars

(***************************************************************************)
(* GET /users: get_users -> UserService.all                                *)
(***************************************************************************)
\* Python's truth value of an optional str argument (if username:)
TruthyStr(arg) == arg # None /\ arg[1] # ""
\* and of an optional datetime argument (if start_date:)
TruthyDate(arg) == arg # None

\* sort_type in ["asc", "desc"]
ValidSortType_Any(sort_type) == TRUE
ValidSortType(sort_type) == sort_type \in {"asc", "desc"}

\* the columns of User, the names hasattr(User, sort_by) is asked about here
UserColumns == {"id", "username", "email", "password", "created_at", "updated_at"}
hasattr_User(sort_by) == sort_by \in UserColumns

\* the order the database gives strings: position in the sorted list of
\* the strings of the model
StringOrder == <<"a@x.io", "ann", "b@x.io", "bob", "hashed_pw1">>
SortKey(user, sort_by) ==
    IF sort_by \in {"id", "created_at", "updated_at"}
    THEN user[sort_by]
    ELSE CHOOSE i \in DOMAIN StringOrder : StringOrder[i] = user[sort_by]

\* query.filter(...) for each filter argument that is truthy
FilterUsername(rows, username) ==
    IF TruthyStr(username) THEN {u \in rows : u.username = username[1]} ELSE rows
FilterStartDate(rows, start_date) ==
    IF TruthyDate(start_date) THEN {u \in rows : u.created_at >= start_date[1]} ELSE rows
FilterEndDate_Exclusive(rows, end_date) ==
    IF TruthyDate(end_date) THEN {u \in rows : u.created_at < end_date[1]} ELSE rows
FilterEndDate(rows, end_date) ==
    IF TruthyDate(end_date) THEN {u \in rows : u.created_at <= end_date[1]} ELSE rows

\* query.order_by(asc(sort_column) | desc(sort_column)): every list of the
\* rows in that order (rows with equal keys come in any order)
RECURSIVE OrderBy(_, _, _)
OrderBy(rows, sort_by, sort_type) ==
    IF rows = {} THEN {<<>>}
    ELSE LET first == {u \in rows : \A v \in rows :
                          IF sort_type = "asc"
                          THEN SortKey(u, sort_by) <= SortKey(v, sort_by)
                          ELSE SortKey(u, sort_by) >= SortKey(v, sort_by)}
         IN  UNION {{<<u>> \o rest : rest \in OrderBy(rows \ {u}, sort_by, sort_type)} :
                    u \in first}

\* query.offset(offset).limit(items_per_page).all()
Min(a, b) == IF a <= b THEN a ELSE b
OffsetLimit(s, offset, limit) == SubSeq(s, offset + 1, Min(offset + limit, Len(s)))

all(page, items_per_page, sort_type, sort_by, email, username, start_date, end_date) ==
    LET offset == (page - 1) * items_per_page
        query == FilterEndDate(FilterStartDate(FilterUsername(users, username),
                                               start_date), end_date)
        total == Cardinality(query)
    IN  /\ Idle
        /\ UNCHANGED handlerVars
        /\ before' = users
        /\ call' = [op |-> "all", page |-> page, items_per_page |-> items_per_page,
                    sort_type |-> sort_type, sort_by |-> sort_by, email |-> email,
                    username |-> username, start_date |-> start_date,
                    end_date |-> end_date]
        /\ UNCHANGED <<users, nextId>>
        /\ session' = "open"
        /\ IF ~ValidSortType(sort_type)
           THEN /\ result' = Raise("ValueError")
                /\ http' = 500
           ELSE IF ~hasattr_User(sort_by)
           THEN /\ result' = Raise("InvalidSortFieldError")
                /\ http' = 400
           ELSE \E ordered \in OrderBy(query, sort_by, sort_type) :
                   LET found == OffsetLimit(ordered, offset, items_per_page)
                   IN  /\ result' = Return(
                              [items |-> [i \in DOMAIN found |-> _user_to_response(found[i])],
                               total |-> total,
                               last_page |-> (total - 1) \div items_per_page + 1,
                               first_item |-> offset + 1,
                               last_item |-> Min(offset + items_per_page, total)])
                       \* get_users answers 200; with no items the body says
                       \* status_code 404
                       /\ http' = 200

\* The stores all() is asked about: MaxId or fewer users with ids 1, 2, ...
\* Each is a store the service can get to from the empty one.
UserProfiles ==
    {<<"ann", "a@x.io">>, <<"bob", "b@x.io">>, <<"bob", "a@x.io">>}
Stores ==
    UNION {{{UserRow(i, f[i][1][1], f[i][1][2], HashPassword("pw1"), f[i][2], f[i][2]) :
                i \in 1..n} : f \in [1..n -> UserProfiles \X Times]} : n \in 0..MaxId}

OptionalTimes == {None} \cup {Some(t) : t \in Times}

\* The calls of all() in the model: paged and sorted calls with at most a
\* simple filter, calls with every combination of filters, and calls with
\* a sort argument that is not valid.
AllCalls ==
    [page : 1..MaxPage, items_per_page : 1..MaxPerPage, sort_type : {"asc", "desc"},
     sort_by : {"id", "username", "email", "created_at"},
     email : {None, Some("a@x.io")}, username : {None, Some("bob")},
     start_date : {None}, end_date : {None}]
    \cup
    [page : {1}, items_per_page : {MaxPerPage}, sort_type : {"asc"}, sort_by : {"id"},
     email : {None, Some("a@x.io")}, username : {None, Some(""), Some("bob")},
     start_date : OptionalTimes, end_date : OptionalTimes]
    \cup
    [page : {1}, items_per_page : {MaxPerPage}, sort_type : {"asc", "sideways"},
     sort_by : {"id", "nickname"},
     email : {None}, username : {None}, start_date : {None}, end_date : {None}]

InitAll ==
    /\ users \in Stores
    /\ nextId = Cardinality(users) + 1
    /\ before = {}
    /\ call = [op |-> "none"]
    /\ result = [kind |-> "none"]
    /\ http = 0
    /\ session = "none"
    /\ InitHandler

NextAll ==
    \/ \E c \in AllCalls :
          all(c.page, c.items_per_page, c.sort_type, c.sort_by, c.email, c.username,
              c.start_date, c.end_date)
    \/ respond

SpecAll == InitAll /\ [][NextAll]_vars

(***************************************************************************)
(* handlers/data_validation.py: main()                                     *)
(***************************************************************************)
\* most calls of main() in a run
MaxCalls == 4

\* the APP_ENVIRONMENT settings env() can report
Environments == {"local", "test", "production"}

\* the module's logger = StandardLoggerService()
logger == "StandardLoggerService()"

\* logger.info(message): the logger takes the message
info(calls, message) == Append(calls, message)

\* f"Currently in {environment} environment"
EnvironmentMessage_Fixed(environment) == "Currently in test environment"
EnvironmentMessage(environment) == "Currently in " \o environment \o " environment"

\* main(), with env() reporting APP_ENVIRONMENT = environment
main(environment) ==
    /\ Len(main_returns) < MaxCalls
    /\ env_calls' = Append(env_calls, environment)
    /\ info_calls' = info(info(info_calls, EnvironmentMessage(environment)),
                          "Hello, from Spartan")
    /\ main_returns' = Append(main_returns, [status_code |-> 200])
    /\ UNCHANGED serviceVars

NextMain == \E environment \in Environments : main(environment)

SpecMain == Init /\ [][NextMain]_vars

(***************************************************************************)
(* Properties.                                                             *)
(***************************************************************************)
\* the request the last call was made with, and the rows a call saw
Req == call.user_request
RowsWithId(rows, id) == {u \in rows : u.id = id}

\* v is the data of row u as a response carries it: id, username and email
\* as stored, the two datetimes cut to whole seconds
IsDataOf(v, u) ==
    /\ v.id = u.id
    /\ v.username = u.username
    /\ v.email = u.email
    /\ v.created_at * TicksPerSecond <= u.created_at
    /\ u.created_at < (v.created_at + 1) * TicksPerSecond
    /\ v.updated_at * TicksPerSecond <= u.updated_at
    /\ u.updated_at < (v.updated_at + 1) * TicksPerSecond

\* s is "hashed_" followed by password
IsHashedOf(s, password) ==
    /\ Len(s) = 7 + Len(password)
    /\ SubSeq(s, 1, 7) = "hashed_"
    /\ SubSeq(s, 8, Len(s)) = password

\* C1: save with an email that a stored user already has raises
\* DuplicateUserError, leaves the stored users as they were, and the
\* create_user route answers 409.
C1_DuplicateEmailRejected ==
    (call.op = "save" /\ \E u \in before : u.email = Req.email)
        => /\ Raised("DuplicateUserError")
           /\ users = before
           /\ http = 409

C1_Witness ==
    /\ call.op = "save"
    /\ \E u \in before : u.email = Req.email
    /\ Raised("DuplicateUserError")

\* C2: in every state reachable from the empty store by save, update,
\* delete and bulk_delete, no two stored users have the same email.
C2_EmailsUnique ==
    \A u, v \in users : u.email = v.email => u = v

\* C3: a successful save adds exactly one user, with the request's username
\* and email and the password stored as "hashed_" + password, returns that
\* user's id, username and email, and changes no user stored before.
C3_SaveAddsOneUser ==
    (call.op = "save" /\ Returned)
        => /\ before \subseteq users
           /\ Cardinality(users) = Cardinality(before) + 1
           /\ \A new \in users \ before :
                 /\ RowsWithId(before, new.id) = {}
                 /\ new.username = Req.username
                 /\ new.email = Req.email
                 /\ IsHashedOf(new.password, Req.password)
                 /\ result.value.id = new.id
                 /\ result.value.username = new.username
                 /\ result.value.email = new.email

C3_Witness ==
    /\ call.op = "save"
    /\ Returned
    /\ before # {}
    /\ users # before

\* C4: find(id) returns the stored user's data when a user with that id
\* exists and raises UserNotFoundError (404 from get_user) otherwise; the
\* stored users are unchanged either way.
C4_FindReturnsOrNotFound ==
    call.op = "find"
        => /\ users = before
           /\ IF RowsWithId(before, call.id) # {}
              THEN /\ Returned
                   /\ \A u \in RowsWithId(before, call.id) : IsDataOf(result.value, u)
                   /\ http = 200
              ELSE /\ Raised("UserNotFoundError")
                   /\ http = 404

C4_Witness ==
    /\ call.op = "find"
    /\ Returned
    /\ Cardinality(users) > 1
    /\ \E u \in users : u.id = call.id /\ u.created_at = 1

\* C5: update(id, request) raises UserNotFoundError and changes nothing when
\* no user has that id; otherwise it changes, on that user only, exactly the
\* fields set in the request (a set password stored as "hashed_" +
\* password), leaves the other fields and the other users unchanged, and
\* returns the user's data after the change.
C5_UpdateSetsExactlyTheSetFields ==
    call.op = "update"
        => IF RowsWithId(before, call.id) = {}
           THEN Raised("UserNotFoundError") /\ users = before
           ELSE /\ Returned
                /\ \E old \in before, new \in users :
                      /\ old.id = call.id
                      /\ new.id = call.id
                      /\ users \ {new} = before \ {old}
                      /\ \A f \in DOMAIN old :
                            IF f \in DOMAIN Req
                            THEN /\ Req[f] # None
                                 /\ IF f = "password"
                                    THEN IsHashedOf(new[f], Req[f][1])
                                    ELSE new[f] = Req[f][1]
                            ELSE new[f] = old[f]
                      /\ IsDataOf(result.value, new)

\* C6: delete(id) of an existing user removes exactly that user, returns
\* the data the user had, leaves the other users unchanged, and a following
\* find(id) raises UserNotFoundError; for an id no user has it raises
\* UserNotFoundError (404 from delete_user) and removes nothing.  (The
\* database works; what a failing database does is C14.)
C6_DeleteRemovesExactlyThatUser ==
    (call.op = "delete" /\ call.fault = None)
        => IF RowsWithId(before, call.id) # {}
           THEN /\ Returned
                /\ \E u \in before :
                      /\ u.id = call.id
                      /\ users = before \ {u}
                      /\ IsDataOf(result.value, u)
                /\ FindOutcome(users, call.id) = Raise("UserNotFoundError")
                /\ http = 200
           ELSE /\ Raised("UserNotFoundError")
                /\ users = before
                /\ http = 404

C6_Witness ==
    /\ call.op = "delete"
    /\ Returned
    /\ users # {}
    /\ users # before

\* C7: bulk_delete(ids) removes exactly the stored users whose id is in ids
\* and returns exactly those ids; ids of no user are skipped; it raises
\* UserNotFoundError, deleting nothing, exactly when no given id is the id
\* of a stored user.  (The database works; a failing one is C14.)
C7_BulkDeleteRemovesTheMatching ==
    (call.op = "bulk_delete" /\ call.fault = None)
        => LET given == {call.user_ids[i] : i \in DOMAIN call.user_ids}
               matching == {u \in before : u.id \in given}
           IN  IF matching = {}
               THEN /\ Raised("UserNotFoundError")
                    /\ users = before
               ELSE /\ Returned
                    /\ users = before \ matching
                    /\ {result.value[i] : i \in DOMAIN result.value}
                          = {u.id : u \in matching}
                    /\ Len(result.value) = Cardinality(matching)

C7_Witness ==
    /\ call.op = "bulk_delete"
    /\ Returned
    /\ users # {}
    /\ \E i \in DOMAIN call.user_ids : RowsWithId(before, call.user_ids[i]) = {}

\* the positions of all()'s page in the list of the matching users
Max(a, b) == IF a >= b THEN a ELSE b
PageOffset == (call.page - 1) * call.items_per_page
PageLength(total) == Max(0, Min(call.items_per_page, total - PageOffset))

\* the ways to list rows in the order of sort_by, in the sort_type direction
InOrder(s, sort_by, sort_type) ==
    \A i, j \in DOMAIN s :
        i < j => IF sort_type = "asc"
                 THEN SortKey(s[i], sort_by) <= SortKey(s[j], sort_by)
                 ELSE SortKey(s[j], sort_by) <= SortKey(s[i], sort_by)

\* the users a call of all() asks for: those that pass every filter given
\* (email, a username that is not empty, start_date, end_date)
MatchingTheFilters ==
    {u \in before :
        /\ call.email # None => u.email = call.email[1]
        /\ (call.username # None /\ call.username # Some("")) => u.username = call.username[1]
        /\ call.start_date # None => call.start_date[1] <= u.created_at
        /\ call.end_date # None => u.created_at <= call.end_date[1]}

\* C8: for page >= 1 and items_per_page >= 1, all() returns (items, total,
\* last_page, first_item, last_item): total is the number of users matching
\* the filters, items is the page at positions (page-1)*items_per_page ..
\* page*items_per_page-1 of the matching users in sort order, last_page is
\* ceil(total / items_per_page), first_item is (page-1)*items_per_page + 1
\* and last_item is min(page*items_per_page, total).
C8_PageOfTheMatchingUsers ==
    (call.op = "all" /\ Returned)
        => LET r == result.value
               n == Cardinality(MatchingTheFilters)
           IN  /\ r.total = n
               /\ \E s \in QueryAll(MatchingTheFilters) :
                     /\ InOrder(s, call.sort_by, call.sort_type)
                     /\ Len(r.items) = PageLength(n)
                     /\ \A i \in DOMAIN r.items : IsDataOf(r.items[i], s[PageOffset + i])
               /\ (r.last_page - 1) * call.items_per_page < n
               /\ n <= r.last_page * call.items_per_page
               /\ r.first_item = PageOffset + 1
               /\ r.last_item = Min(call.page * call.items_per_page, n)

\* C9: all() called with an email filters by it: every returned user has
\* that email and total counts only users with that email.
C9_EmailFilterApplied ==
    (call.op = "all" /\ Returned /\ call.email # None)
        => /\ \A i \in DOMAIN result.value.items :
                 result.value.items[i].email = call.email[1]
           /\ result.value.total <= Cardinality({u \in before : u.email = call.email[1]})

\* the users that pass the username and date filters of a call, where a
\* filter counts as given when its argument is not None
PassUsernameAndDates(usernameGiven) ==
    {u \in before :
        /\ usernameGiven => u.username = call.username[1]
        /\ call.start_date # None => call.start_date[1] <= u.created_at
        /\ call.end_date # None => u.created_at <= call.end_date[1]}

\* what all() returned is the page of exactly the users in matching
ReturnsExactly(matching) ==
    /\ result.value.total = Cardinality(matching)
    /\ Len(result.value.items) = PageLength(Cardinality(matching))
    /\ \A i \in DOMAIN result.value.items :
          \E u \in matching : IsDataOf(result.value.items[i], u)

\* C10 as stated: all() with a username returns only the users with
\* exactly that username, with start_date and/or end_date only those with
\* start_date <= created_at <= end_date; the filters combine by
\* conjunction and an omitted filter excludes no user.
C10_AnyUsernameFilters ==
    (call.op = "all" /\ Returned)
        => ReturnsExactly(PassUsernameAndDates(call.username # None))

\* C10: the same for a username that is not the empty string; an empty
\* username filters nothing, like an omitted one.
C10_UsernameAndDateFilters ==
    (call.op = "all" /\ Returned)
        => ReturnsExactly(PassUsernameAndDates(call.username # None /\ call.username # Some("")))

C10_Witness ==
    /\ call.op = "all"
    /\ Returned
    /\ call.username = Some("bob")
    /\ call.start_date # None
    /\ call.end_date # None
    /\ Len(result.value.items) >= 1
    /\ result.value.total < Cardinality(before)
    /\ \E u \in before : u.username = "bob" /\ u.created_at > call.end_date[1]

\* C11: all() raises ValueError when sort_type is neither 'asc' nor 'desc'
\* and InvalidSortFieldError when sort_by is no attribute of User; the
\* sort_type check comes first (both wrong: ValueError), and get_users
\* answers an invalid sort field with 400.
C11_SortArgumentsValidated ==
    call.op = "all"
        => /\ call.sort_type \notin {"asc", "desc"} => Raised("ValueError")
           /\ (call.sort_type \in {"asc", "desc"} /\ call.sort_by \notin UserColumns)
                 => Raised("InvalidSortFieldError") /\ http = 400
           /\ users = before

C11_Witness ==
    /\ call.op = "all"
    /\ call.sort_type = "sideways"
    /\ call.sort_by = "nickname"
    /\ Raised("ValueError")
    /\ users # {}

\* C12: main() returns a mapping that has the key 'logger', whose value is
\* the logger it logged with.
C12_MainReturnsItsLogger ==
    \A i \in DOMAIN main_returns :
        /\ "logger" \in DOMAIN main_returns[i]
        /\ main_returns[i]["logger"] = logger

\* message is "Currently in <environment> environment"
IsEnvironmentMessage(message, environment) ==
    /\ Len(message) = 13 + Len(environment) + 12
    /\ SubSeq(message, 1, 13) = "Currently in "
    /\ SubSeq(message, 14, 13 + Len(environment)) = environment
    /\ SubSeq(message, 14 + Len(environment), Len(message)) = " environment"

\* C13: each call of main() calls env() once and logger.info twice: first
\* "Currently in <APP_ENVIRONMENT> environment" with the name env() reported
\* to that call, then "Hello, from Spartan".
C13_OneEnvTwoInfosPerCall ==
    /\ Len(env_calls) = Len(main_returns)
    /\ Len(info_calls) = 2 * Len(main_returns)
    /\ \A i \in DOMAIN main_returns :
          /\ IsEnvironmentMessage(info_calls[2 * i - 1], env_calls[i])
          /\ info_calls[2 * i] = "Hello, from Spartan"

C13_Witness ==
    /\ Len(main_returns) >= 2
    /\ env_calls[1] = "test"
    /\ env_calls[2] = "production"
\* C14: when self.db.delete or self.db.commit fails inside delete or
\* bulk_delete, the session is rolled back, the exception the database
\* raised is raised again, and the stored users are the ones stored before
\* the call: bulk_delete never leaves a part of the users deleted.
C14_FailureRollsBack ==
    (call.op \in {"delete", "bulk_delete"} /\ call.fault # None)
        => /\ session = "rolled_back"
           /\ Raised(call.fault[1].exc)
           /\ users = before

\* the second delete of a bulk_delete of two stored users failed
C14_Witness ==
    /\ call.op = "bulk_delete"
    /\ call.fault # None
    /\ call.fault[1].done = 1
    /\ Cardinality(QueryIdIn(before, call.user_ids)) = 2
    /\ Raised("IntegrityError")

====
